---- MODULE Spec2Model ----
(***************************************************************************)
(* fake::vector<int> (src/fakeVector.h) as a state machine.                *)
(*                                                                         *)
(* The heap is a set of buffers; a pointer is a pair <<buffer, offset>>,   *)
(* buffer 0 being the null pointer.  Every container keeps the six data    *)
(* members of the class: capacity_, size_, array_ and the three range      *)
(* pointers, which the code refreshes only where it calls set_pointers().  *)
(* Every slot of a buffer holds an int and a ghost bit `live` telling      *)
(* whether an element is constructed there.  A fresh buffer holds          *)
(* arbitrary ints (the parameter g of the operations that allocate).       *)
(* An access outside an allocated buffer is undefined behaviour: it sets   *)
(* `ub` and the program is not followed any further.                       *)
(*                                                                         *)
(* The data model is LP64 (size_type and difference_type 64 bit, int and   *)
(* unsigned int 32 bit), the only one the iterator typedefs of the header  *)
(* (libstdc++) are built for in src/main.cpp.                              *)
(***************************************************************************)
EXTENDS Integers, Sequences, FiniteSets, TLC

VARIABLES vec, heap, ub, last, hist

vars == <<vec, heap, ub, last, hist>>

\* ------------------------------------------------------------------ bounds
\* Largest capacity and size the container reaches in Spec.
MaxCap == 3
\* Largest capacity and size a container reaches in SpecTwo.
MaxCapTwo == 2
\* Largest capacity and size the container reaches in SpecThrow.
MaxCapThrow == 2
\* Number of push_back calls followed in SpecPush.
MaxPush == 6

Values == {0, 1}
Vecs == {1, 2}
Bufs == {1, 2, 3}
NullBuf == 0
\* What reading container[i] is compared with when slot i is outside the buffer.
NoValue == 0 - 1

\* ------------------------------------------------------------ integer types
\* INT_MAX of the 32-bit int that static_cast<int>(...) converts to.
IntMax == 2147483647

\* static_cast<int>(x) of a size_type x >= 0 (values above INT_MAX wrap)
ToInt(x) == IF x <= IntMax THEN x ELSE x - IntMax - IntMax - 2

\* i < count, where count was converted to the unsigned 64-bit size_type:
\* a negative count is a value above every index.
SizeTLess(i, count) == count < 0 \/ i < count

Max(a, b) == IF a >= b THEN a ELSE b
Min(a, b) == IF a <= b THEN a ELSE b

\* ---------------------------------------------------------------- pointers
nullptr == <<NullBuf, 0>>
PtrAdd(p, k) == <<p[1], p[2] + k>>
PtrDiff(p, q) == p[2] - q[2]
\* std::min of two iterators into the same buffer
PtrMin(p, q) == IF q[2] < p[2] THEN q ELSE p

\* -------------------------------------------------------------------- heap
NoBuffer == [used |-> FALSE, cap |-> 0, val |-> << >>, live |-> << >>]

\* p addresses a slot of an allocated buffer
InBounds(m, p) ==
    /\ p[1] \in Bufs
    /\ m.heap[p[1]].used
    /\ p[2] >= 0
    /\ p[2] < m.heap[p[1]].cap

\* *p
Deref(m, p) == m.heap[p[1]].val[p[2] + 1]

\* The buffer the allocator hands out next: never one that is in use.
FreeBufs(m) == {b \in Bufs : ~m.heap[b].used}
NextBuf(m) == CHOOSE b \in FreeBufs(m) : \A c \in FreeBufs(m) : b <= c

Garbage(n) == [1..n -> Values]

\* allocator_.allocate(n): buffer NextBuf(m) with n raw slots holding g.
\* (libstdc++: allocate(0) is ::operator new(0), a non-null pointer.)
Allocate(m, n, g) ==
    [m EXCEPT !.heap[NextBuf(m)] =
        [used |-> TRUE, cap |-> n,
         val |-> [i \in 1..n |-> g[i]],
         live |-> [i \in 1..n |-> FALSE]]]

\* allocator_.deallocate(p, n): p must be a pointer allocate(n) returned,
\* with the same n, that was not released since.
Deallocate(m, p, n) ==
    IF m.ub \/ p = nullptr THEN m
    ELSE IF /\ p[1] \in Bufs
            /\ m.heap[p[1]].used
            /\ p[2] = 0
            /\ m.heap[p[1]].cap = n
         THEN [m EXCEPT !.heap[p[1]] = NoBuffer]
         ELSE [m EXCEPT !.ub = TRUE]

\* allocator_.construct(p, v)
Construct(m, p, v) ==
    IF m.ub THEN m
    ELSE IF InBounds(m, p)
         THEN [m EXCEPT !.heap[p[1]].val[p[2] + 1] = v,
                        !.heap[p[1]].live[p[2] + 1] = TRUE]
         ELSE [m EXCEPT !.ub = TRUE]

\* allocator_.destroy(p): ~int() touches no memory; the slot is raw again.
Destroy(m, p) ==
    IF m.ub \/ ~InBounds(m, p) THEN m
    ELSE [m EXCEPT !.heap[p[1]].live[p[2] + 1] = FALSE]

\* ------------------------------------------------------- private helpers
\* set_pointers()
set_pointers(m, c) ==
    [m EXCEPT !.vec[c].array_start_ = m.vec[c].array_,
              !.vec[c].array_end_ = PtrAdd(m.vec[c].array_, m.vec[c].size_),
              !.vec[c].array_range_end_ =
                  PtrAdd(m.vec[c].array_, m.vec[c].capacity_)]

\* The loop of construct_elements(begin, end, destination), iterators into
\* the heap: element i is read after elements 0..i-1 were written.
RECURSIVE CopyLoop(_, _, _, _, _)
CopyLoop(m, begin, destination, i, distance) ==
    IF m.ub \/ ~(i < distance) THEN m
    ELSE IF ~InBounds(m, begin)
         THEN [m EXCEPT !.ub = TRUE]
         ELSE CopyLoop(Construct(m, PtrAdd(destination, i), Deref(m, begin)),
                       PtrAdd(begin, 1), destination, i + 1, distance)

\* construct_elements(InputIterator begin, InputIterator end, pointer):
\* `i < distance` compares an unsigned int with a 64-bit difference_type,
\* so a negative distance runs the loop zero times.
construct_elements(m, begin, end, destination) ==
    CopyLoop(m, begin, destination, 0, PtrDiff(end, begin))

\* The same template called with iterators over a caller's sequence s.
RECURSIVE construct_from(_, _, _, _)
construct_from(m, s, destination, i) ==
    IF m.ub \/ ~(i < Len(s)) THEN m
    ELSE construct_from(Construct(m, PtrAdd(destination, i), s[i + 1]),
                        s, destination, i + 1)

\* construct_elements(pointer destination, size_type count, value_type value)
RECURSIVE FillLoop(_, _, _, _, _)
FillLoop(m, destination, i, count, value) ==
    IF m.ub \/ ~SizeTLess(i, count) THEN m
    ELSE FillLoop(Construct(m, PtrAdd(destination, i), value),
                  destination, i + 1, count, value)

construct_fill(m, destination, count, value) ==
    FillLoop(m, destination, 0, count, value)

\* destroy_elements(start, n)
RECURSIVE DestroyLoop(_, _, _, _)
DestroyLoop(m, start, i, n) ==
    IF m.ub \/ ~(i < n) THEN m
    ELSE DestroyLoop(Destroy(m, PtrAdd(start, i)), start, i + 1, n)

destroy_elements(m, start, n) == DestroyLoop(m, start, 0, n)

\* begin(), cbegin(), end()
begin(m, c) == m.vec[c].array_start_
end(m, c) == m.vec[c].array_end_

\* increase_array(new_size); g is what the fresh buffer holds.
increase_array(m, c, new_size, g) ==
    LET new_array == <<NextBuf(m), 0>>
        Migrate(m1) ==
            construct_elements(m1, begin(m1, c),
                PtrMin(end(m1, c), PtrAdd(begin(m1, c), new_size)),
                new_array)
        DestroyOld(m2) ==
            destroy_elements(m2, m2.vec[c].array_, m2.vec[c].size_)
        ReleaseOld(m3) ==
            Deallocate(m3, m3.vec[c].array_, m3.vec[c].capacity_)
        Adopt(m4) ==
            [m4 EXCEPT !.vec[c].array_ = new_array,
                       !.vec[c].capacity_ = new_size]
    IN set_pointers(
           Adopt(ReleaseOld(DestroyOld(Migrate(Allocate(m, new_size, g))))),
           c)

\* ---------------------------------------------------------- constructors
NoVector ==
    [alive |-> FALSE, capacity_ |-> 0, size_ |-> 0, array_ |-> nullptr,
     array_start_ |-> nullptr, array_end_ |-> nullptr,
     array_range_end_ |-> nullptr]

\* vector(const allocator_type& = allocator_type())
vector_default(m, c) ==
    [m EXCEPT !.vec[c] = [NoVector EXCEPT !.alive = TRUE]]

\* The member initialisers shared by the allocating constructors:
\* capacity_(cap), size_(n), array_(allocator_.allocate(cap)) and the three
\* range pointers.
vector_members(m, c, cap, n, g) ==
    LET new_array == <<NextBuf(m), 0>>
        m1 == Allocate(m, cap, g)
    IN [m1 EXCEPT !.vec[c] =
           [alive |-> TRUE, capacity_ |-> cap, size_ |-> n,
            array_ |-> new_array, array_start_ |-> new_array,
            array_end_ |-> PtrAdd(new_array, n),
            array_range_end_ |-> PtrAdd(new_array, cap)]]

\* explicit vector(size_type n): no element is constructed
vector_count(m, c, n, g) == vector_members(m, c, n, n, g)

\* vector(size_type n, value_type val, const allocator_type&)
vector_fill(m, c, n, val, g) ==
    LET m1 == vector_members(m, c, n, n, g)
    IN construct_fill(m1, m1.vec[c].array_, n, val)

\* vector(InputIterator first, InputIterator last, const allocator_type&)
\* and vector(std::initializer_list<value_type>, const allocator_type&)
vector_range(m, c, s, g) ==
    LET m1 == vector_members(m, c, Len(s), Len(s), g)
    IN construct_from(m1, s, m1.vec[c].array_start_, 0)

\* ------------------------------------------------------------- observers
\* at(n) and at(n) const throw std::out_of_range
at_throws(m, c, n) == ~(n < m.vec[c].capacity_ /\ n > 0)

size(m, c) == m.vec[c].size_
capacity(m, c) == m.vec[c].capacity_
data(m, c) == m.vec[c].array_

\* front() and back(): the slot the returned reference names
front(m, c) == m.vec[c].array_start_
back(m, c) == m.vec[c].array_end_

\* operator[](n), for the comparison of contents: NoValue outside the buffer
At(m, c, n) ==
    LET p == PtrAdd(m.vec[c].array_start_, n)
    IN IF InBounds(m, p) THEN Deref(m, p) ELSE NoValue

\* container[0], ..., container[size() - 1]
Elems(m, c) == [i \in 1..size(m, c) |-> At(m, c, i - 1)]

\* -------------------------------------------------------------- modifiers
\* std::max(1, static_cast<int>(capacity_*2))
double_capacity(m, c) == Max(1, ToInt(m.vec[c].capacity_ * 2))

\* The number of slots push_back, insert(position, val), emplace and
\* emplace_back ask the allocator for (0: no allocation).
grow_request(m, c) ==
    IF m.vec[c].array_end_ = m.vec[c].array_range_end_
    THEN double_capacity(m, c) ELSE 0

\* push_back without the set_pointers() call of its first branch
push_back_stale(m, c, val, g) ==
    IF m.vec[c].array_end_ # m.vec[c].array_range_end_
    THEN LET m1 == Construct(m, m.vec[c].array_end_, val)
         IN [m1 EXCEPT !.vec[c].size_ = @ + 1]
    ELSE LET m0 == increase_array(m, c, double_capacity(m, c), g)
             m1 == Construct(m0, m0.vec[c].array_end_, val)
             m2 == [m1 EXCEPT !.vec[c].size_ = @ + 1]
         IN set_pointers(m2, c)

\* push_back(const value_type&), push_back(value_type&&)
push_back(m, c, val, g) ==
    IF m.vec[c].array_end_ # m.vec[c].array_range_end_
    THEN LET m1 == Construct(m, m.vec[c].array_end_, val)
             m2 == [m1 EXCEPT !.vec[c].size_ = @ + 1]
         IN set_pointers(m2, c)
    ELSE LET m0 == increase_array(m, c, double_capacity(m, c), g)
             m1 == Construct(m0, m0.vec[c].array_end_, val)
             m2 == [m1 EXCEPT !.vec[c].size_ = @ + 1]
         IN set_pointers(m2, c)

\* The slot pop_back() passes to allocator_.destroy
pop_back_slot(m, c) == m.vec[c].array_end_

\* pop_back()
pop_back(m, c) ==
    LET m1 == Destroy(m, m.vec[c].array_end_)
        m2 == [m1 EXCEPT !.vec[c].size_ = @ - 1]
    IN set_pointers(m2, c)

\* The number of slots resize(n) and resize(n, val) ask for.
resize_request(m, c, n) ==
    IF n <= m.vec[c].size_ THEN 0 ELSE Max(n, 2 * m.vec[c].capacity_)

\* resize(size_type n)
resize(m, c, n, g) ==
    IF n <= m.vec[c].size_
    THEN LET m1 == destroy_elements(m, PtrAdd(m.vec[c].array_start_, n),
                                    m.vec[c].size_ - n)
         IN [m1 EXCEPT !.vec[c].size_ = n]
    ELSE LET m1 == increase_array(m, c, Max(n, 2 * m.vec[c].capacity_), g)
         IN [m1 EXCEPT !.vec[c].size_ = n]

\* resize(size_type n, const value_type& val).  The call
\* construct_elements(end(), ..., val) passes an iterator where the fill
\* overload takes a pointer and matches no overload; it is read here as the
\* fill overload at the position end() addresses.
resize_val(m, c, n, val, g) ==
    IF n <= m.vec[c].size_
    THEN LET m1 == destroy_elements(m, PtrAdd(m.vec[c].array_start_, n),
                                    m.vec[c].size_ - n)
         IN [m1 EXCEPT !.vec[c].size_ = n]
    ELSE LET m1 == increase_array(m, c, Max(n, 2 * m.vec[c].capacity_), g)
             m2 == construct_fill(m1, end(m1, c),
                       PtrDiff(m1.vec[c].array_range_end_,
                               m1.vec[c].array_end_), val)
             m3 == [m2 EXCEPT !.vec[c].size_ = n]
         IN set_pointers(m3, c)

\* The number of slots reserve(n) asks for.
reserve_request(m, c, n) == IF n > m.vec[c].capacity_ THEN n ELSE 0

\* reserve(size_type n)
reserve(m, c, n, g) ==
    IF n > m.vec[c].capacity_ THEN increase_array(m, c, n, g) ELSE m

\* shrink_to_fit()
shrink_to_fit(m, c, g) == increase_array(m, c, m.vec[c].size_, g)

\* The number of slots the three forms of assign ask for, n the new size.
assign_request(m, c, n) == IF n <= m.vec[c].capacity_ THEN 0 ELSE n

\* assign(InputIterator first, InputIterator last), s the caller's range
assign_range(m, c, s, g) ==
    IF Len(s) <= m.vec[c].capacity_
    THEN LET m1 == [m EXCEPT !.vec[c].size_ = Len(s)]
             m2 == construct_from(m1, s, m1.vec[c].array_start_, 0)
         IN set_pointers(m2, c)
    ELSE LET m1 == [m EXCEPT !.vec[c].size_ = Len(s)]
             m2 == increase_array(m1, c, Len(s), g)
             m3 == construct_from(m2, s, m2.vec[c].array_start_, 0)
         IN set_pointers(m3, c)

\* assign(size_type n, const_reference val)
assign_fill(m, c, n, val, g) ==
    IF n <= m.vec[c].capacity_
    THEN LET m1 == [m EXCEPT !.vec[c].size_ = n]
             m2 == construct_fill(m1, m1.vec[c].array_, n, val)
         IN set_pointers(m2, c)
    ELSE LET m1 == [m EXCEPT !.vec[c].size_ = n]
             m2 == increase_array(m1, c, n, g)
             m3 == construct_fill(m2, m2.vec[c].array_, n, val)
         IN set_pointers(m3, c)

\* assign(std::initializer_list<value_type> il).  The growing branch calls
\* s(il.begin(), il.end(), begin()); the repository declares no s (the member
\* does not compile once it is used), so that branch constructs nothing
\* from il.
assign_il(m, c, il, g) ==
    IF Len(il) <= m.vec[c].capacity_
    THEN LET m1 == [m EXCEPT !.vec[c].size_ = Len(il)]
             m2 == construct_from(m1, il, m1.vec[c].array_start_, 0)
         IN set_pointers(m2, c)
    ELSE LET m1 == [m EXCEPT !.vec[c].size_ = Len(il)]
             m2 == increase_array(m1, c, Len(il), g)
         IN set_pointers(m2, c)

\* insert(const_iterator position, const value_type& val) and
\* insert(const_iterator position, value_type&& val), position = cbegin()+distance
insert(m, c, distance, val, g) ==
    LET m1 == IF m.vec[c].array_end_ = m.vec[c].array_range_end_
              THEN increase_array(m, c, double_capacity(m, c), g)
              ELSE m
        m2 == [m1 EXCEPT !.vec[c].size_ = @ + 1]
        it == PtrAdd(begin(m2, c), distance)
        m3 == construct_elements(m2, it, end(m2, c),
                  PtrAdd(m2.vec[c].array_start_, distance + 1))
    IN Construct(m3, PtrAdd(m3.vec[c].array_start_, distance), val)

\* The number of slots the counted forms of insert ask for.
insert_request(m, c, count) ==
    IF m.vec[c].size_ + count > m.vec[c].capacity_
    THEN Max(ToInt(m.vec[c].capacity_ * 2), ToInt(m.vec[c].size_ + count))
    ELSE 0

\* insert(const_iterator position, size_type count, const value_type& val).
\* construct_elements(it, count, val) passes an iterator as in resize(n, val)
\* and is read the same way.
insert_fill(m, c, distance, count, val, g) ==
    LET m1 == IF m.vec[c].size_ + count > m.vec[c].capacity_
              THEN increase_array(m, c, insert_request(m, c, count), g)
              ELSE m
        m2 == [m1 EXCEPT !.vec[c].size_ = @ + count]
        it == PtrAdd(begin(m2, c), distance)
        m3 == construct_elements(m2, it, end(m2, c),
                  PtrAdd(m2.vec[c].array_start_, distance + count))
    IN construct_fill(m3, it, count, val)

\* insert(const_iterator position, InputIterator first, InputIterator last)
\* and insert(const_iterator position, std::initializer_list<value_type> il)
insert_range(m, c, distance, s, g) ==
    LET count == Len(s)
        m1 == IF m.vec[c].size_ + count > m.vec[c].capacity_
              THEN increase_array(m, c, insert_request(m, c, count), g)
              ELSE m
        m2 == [m1 EXCEPT !.vec[c].size_ = @ + count]
        it == PtrAdd(begin(m2, c), distance)
        m3 == construct_elements(m2, it, end(m2, c),
                  PtrAdd(m2.vec[c].array_start_, distance + count))
    IN construct_from(m3, s, PtrAdd(m3.vec[c].array_start_, distance), 0)

\* erase(const_iterator position), position = cbegin() + distance
erase(m, c, distance) ==
    LET it == PtrAdd(begin(m, c), distance)
        m1 == construct_elements(m, PtrAdd(it, 1), end(m, c),
                  PtrAdd(m.vec[c].array_start_, distance))
    IN [m1 EXCEPT !.vec[c].size_ = @ - 1]

\* erase(const_iterator first, const_iterator last),
\* first = cbegin() + distance, last = cbegin() + distance_first_last
erase_range(m, c, distance, distance_first_last) ==
    LET it_last == PtrAdd(begin(m, c), distance_first_last)
        m1 == construct_elements(m, it_last, end(m, c),
                  PtrAdd(m.vec[c].array_start_, distance))
    IN [m1 EXCEPT !.vec[c].size_ = @ - (distance_first_last - distance)]

\* clear()
clear(m, c) ==
    LET m1 == destroy_elements(m, m.vec[c].array_, m.vec[c].size_)
        m2 == [m1 EXCEPT !.vec[c].size_ = 0]
    IN set_pointers(m2, c)

\* emplace(const_iterator position, Args&&... args), one int argument
emplace(m, c, distance, val, g) ==
    LET m1 == IF m.vec[c].array_end_ = m.vec[c].array_range_end_
              THEN increase_array(m, c, double_capacity(m, c), g)
              ELSE m
        m2 == construct_elements(m1, PtrAdd(begin(m1, c), distance),
                  end(m1, c), PtrAdd(m1.vec[c].array_start_, distance + 1))
        m3 == Construct(m2, PtrAdd(m2.vec[c].array_start_, distance), val)
        m4 == [m3 EXCEPT !.vec[c].size_ = @ + 1]
    IN set_pointers(m4, c)

\* emplace_back(Args&&... args), one int argument
emplace_back(m, c, val, g) ==
    LET m1 == IF m.vec[c].array_end_ = m.vec[c].array_range_end_
              THEN increase_array(m, c, double_capacity(m, c), g)
              ELSE m
        m2 == Construct(m1, m1.vec[c].array_end_, val)
        m3 == [m2 EXCEPT !.vec[c].size_ = @ + 1]
    IN set_pointers(m3, c)

\* The number of slots operator=(const vector&) and
\* operator=(std::initializer_list<value_type>) ask for, n the new size.
copy_assign_request(m, c, n) == IF m.vec[c].capacity_ >= n THEN 0 ELSE n

\* operator=(std::initializer_list<value_type> il)
assign_op_il(m, c, il, g) ==
    IF m.vec[c].capacity_ >= Len(il)
    THEN LET m1 == [m EXCEPT !.vec[c].size_ = Len(il)]
             m2 == set_pointers(m1, c)
         IN construct_from(m2, il, m2.vec[c].array_start_, 0)
    ELSE LET m1 == destroy_elements(m, m.vec[c].array_, m.vec[c].size_)
             m2 == Deallocate(m1, m1.vec[c].array_, m1.vec[c].capacity_)
             new_array == <<NextBuf(m2), 0>>
             m3 == Allocate(m2, Len(il), g)
             m4 == [m3 EXCEPT !.vec[c].capacity_ = Len(il),
                              !.vec[c].size_ = Len(il),
                              !.vec[c].array_ = new_array]
             m5 == set_pointers(m4, c)
         IN construct_from(m5, il, m5.vec[c].array_start_, 0)

\* ----------------------------------------------- copy, move, swap, destroy
\* vector(const vector& x)
vector_copy(m, c, x, g) ==
    LET m1 == vector_members(m, c, capacity(m, x), size(m, x), g)
    IN construct_elements(m1, begin(m1, x), end(m1, x),
                          m1.vec[c].array_start_)

\* release_source without x.capacity_ = 0
release_source_keeps_capacity(m, x) ==
    set_pointers([m EXCEPT !.vec[x].array_ = nullptr,
                           !.vec[x].size_ = 0], x)

\* x.array_ = nullptr; x.size_ = 0; x.capacity_ = 0; x.set_pointers();
release_source(m, x) ==
    set_pointers([m EXCEPT !.vec[x].array_ = nullptr,
                           !.vec[x].size_ = 0,
                           !.vec[x].capacity_ = 0], x)

\* vector(vector&& x)
vector_move(m, c, x) ==
    LET m1 == [m EXCEPT !.vec[c] =
                  [alive |-> TRUE,
                   capacity_ |-> m.vec[x].capacity_,
                   size_ |-> m.vec[x].size_,
                   array_ |-> m.vec[x].array_,
                   array_start_ |-> m.vec[x].array_,
                   array_end_ |-> PtrAdd(m.vec[x].array_, m.vec[x].size_),
                   array_range_end_ |->
                       PtrAdd(m.vec[x].array_, m.vec[x].capacity_)]]
    IN release_source(m1, x)

\* ~vector() without allocator_.deallocate
vector_destroy_leaks(m, c) ==
    LET m1 == destroy_elements(m, m.vec[c].array_, m.vec[c].size_)
    IN [m1 EXCEPT !.vec[c] = NoVector]

\* ~vector(): the object is gone afterwards
vector_destroy(m, c) ==
    LET m1 == destroy_elements(m, m.vec[c].array_, m.vec[c].size_)
        m2 == Deallocate(m1, m1.vec[c].array_, m1.vec[c].capacity_)
    IN [m2 EXCEPT !.vec[c] = NoVector]

\* operator=(const vector& x)
assign_op_copy(m, c, x, g) ==
    IF m.vec[c].capacity_ >= m.vec[x].size_
    THEN LET m1 == [m EXCEPT !.vec[c].size_ = size(m, x)]
             m2 == set_pointers(m1, c)
         IN construct_elements(m2, begin(m2, x), end(m2, x),
                               m2.vec[c].array_start_)
    ELSE LET m1 == destroy_elements(m, m.vec[c].array_, m.vec[c].size_)
             m2 == Deallocate(m1, m1.vec[c].array_, m1.vec[c].capacity_)
             new_array == <<NextBuf(m2), 0>>
             m3 == Allocate(m2, size(m2, x), g)
             m4 == [m3 EXCEPT !.vec[c].capacity_ = size(m2, x),
                              !.vec[c].size_ = size(m2, x),
                              !.vec[c].array_ = new_array]
             m5 == set_pointers(m4, c)
         IN construct_elements(m5, begin(m5, x), end(m5, x),
                               m5.vec[c].array_start_)

\* operator=(vector&& x) that leaves x as it was
assign_op_move_keeps_source(m, c, x) ==
    LET m1 == destroy_elements(m, m.vec[c].array_, m.vec[c].capacity_)
        m2 == Deallocate(m1, m1.vec[c].array_, m1.vec[c].capacity_)
        m3 == [m2 EXCEPT !.vec[c].size_ = m2.vec[x].size_,
                         !.vec[c].capacity_ = m2.vec[x].capacity_,
                         !.vec[c].array_ = m2.vec[x].array_]
    IN set_pointers(m3, c)

\* operator=(vector&& x)
assign_op_move(m, c, x) ==
    LET m1 == destroy_elements(m, m.vec[c].array_, m.vec[c].capacity_)
        m2 == Deallocate(m1, m1.vec[c].array_, m1.vec[c].capacity_)
        m3 == [m2 EXCEPT !.vec[c].size_ = m2.vec[x].size_,
                         !.vec[c].capacity_ = m2.vec[x].capacity_,
                         !.vec[c].array_ = m2.vec[x].array_]
        m4 == set_pointers(m3, c)
    IN release_source(m4, x)

\* swap without std::swap(size_, x.size_)
swap_keeps_size(m, c, x) ==
    LET m1 == [m EXCEPT !.vec[c].capacity_ = m.vec[x].capacity_,
                        !.vec[x].capacity_ = m.vec[c].capacity_,
                        !.vec[c].array_ = m.vec[x].array_,
                        !.vec[x].array_ = m.vec[c].array_]
    IN set_pointers(set_pointers(m1, c), x)

\* swap(vector& x)
swap(m, c, x) ==
    LET m1 == [m EXCEPT !.vec[c].capacity_ = m.vec[x].capacity_,
                        !.vec[x].capacity_ = m.vec[c].capacity_,
                        !.vec[c].size_ = m.vec[x].size_,
                        !.vec[x].size_ = m.vec[c].size_,
                        !.vec[c].array_ = m.vec[x].array_,
                        !.vec[x].array_ = m.vec[c].array_]
    IN set_pointers(set_pointers(m1, c), x)

\* --------------------------------------- assignment within the capacity
\* The machine at the point where the fitting branch of assign(first, last)
\* and of assign(n, val) starts to construct the n new elements: size_ was
\* assigned, nothing was destroyed.
assign_prepare(m, c, n) == [m EXCEPT !.vec[c].size_ = n]

\* The same point in the fitting branch of operator=(const vector&) and of
\* operator=(std::initializer_list): size_ was assigned and set_pointers()
\* called.
assign_op_prepare(m, c, n) ==
    set_pointers([m EXCEPT !.vec[c].size_ = n], c)

\* ------------------------------------------- allocator_.allocate throws
\* The machine at the point where allocator_.allocate(n) throws
\* std::bad_alloc; no member catches it, so this is the state the caller
\* sees.  increase_array calls allocate in its first statement.
increase_array_bad_alloc(m, c) == m

\* assign(first, last) and assign(n, val), growing branch, n the new size:
\* size_ is assigned before increase_array is called.
assign_bad_alloc(m, c, n) ==
    increase_array_bad_alloc([m EXCEPT !.vec[c].size_ = n], c)

\* operator=(const vector&) and operator=(std::initializer_list), growing
\* branch, n the new size: the old elements are destroyed, the old buffer is
\* released and capacity_ and size_ are assigned before allocate is called.
assign_op_bad_alloc(m, c, n) ==
    LET m1 == destroy_elements(m, m.vec[c].array_, m.vec[c].size_)
        m2 == Deallocate(m1, m1.vec[c].array_, m1.vec[c].capacity_)
    IN [m2 EXCEPT !.vec[c].capacity_ = n, !.vec[c].size_ = n]

\* ------------------------------------- an element constructor throws
\* The number of elements the migrate step of increase_array(new_size)
\* constructs in the new buffer.
migrate_distance(m, c, new_size) ==
    PtrDiff(PtrMin(end(m, c), PtrAdd(begin(m, c), new_size)), begin(m, c))

\* increase_array that adopts the new buffer before it migrates the elements
increase_array_adopts_first(m, c, new_size, g, k) ==
    LET new_array == <<NextBuf(m), 0>>
        m1 == Allocate(m, new_size, g)
        m2 == CopyLoop(m1, begin(m1, c), new_array, 0, k)
    IN set_pointers([m2 EXCEPT !.vec[c].array_ = new_array,
                               !.vec[c].capacity_ = new_size], c)

\* increase_array(new_size) when allocator_.construct throws at element k of
\* the migrate step (value_type a class whose copy constructor may throw):
\* elements 0..k-1 are constructed in the new buffer and the exception leaves
\* increase_array, and the member that called it, before anything else runs.
\* Nothing catches it, so the new buffer is never released.
increase_array_throws(m, c, new_size, g, k) ==
    LET new_array == <<NextBuf(m), 0>>
        m1 == Allocate(m, new_size, g)
    IN CopyLoop(m1, begin(m1, c), new_array, 0, k)

\* ------------------------------------------------------------ the machine
Cur == [vec |-> vec, heap |-> heap, ub |-> ub]

Commit(m, op, c) ==
    /\ vec' = m.vec
    /\ heap' = m.heap
    /\ ub' = m.ub
    /\ last' = op

\* An operation is followed while the program has not run into undefined
\* behaviour and the allocator has a buffer to hand out.
CanRun(c) == ~ub /\ vec[c].alive /\ FreeBufs(Cur) # {}

Bounded(K, m) ==
    \A c \in Vecs : m.vec[c].capacity_ <= K /\ m.vec[c].size_ <= K

EmptyHeap == [b \in Bufs |-> NoBuffer]

\* Before any container is constructed.
Blank == [vec |-> [c \in Vecs |-> NoVector], heap |-> EmptyHeap, ub |-> FALSE]

\* The callers' sequences: ranges and initializer lists of up to n values.
Seqs(n) == UNION {[1..k -> Values] : k \in 0..n}

\* One call on container c: req is the number of slots the call asks the
\* allocator for, F(g) the machine after the call when the fresh buffer
\* holds g.  K bounds the capacities and sizes that are followed.
Run(K, c, op, req, F(_)) ==
    /\ CanRun(c)
    /\ req <= K
    /\ \E g \in Garbage(req) :
          \E m \in {F(g)} : Bounded(K, m) /\ Commit(m, op, c)
    /\ UNCHANGED hist

\* ------------------------------------------------- Spec: one container
\* The container is constructed by any of its constructors, then any
\* sequence of member calls within their preconditions follows.
Constructed(m) ==
    /\ vec = m.vec
    /\ heap = m.heap
    /\ ub = m.ub
    /\ last = "vector"
    /\ hist = << >>

Init ==
    \/ Constructed(vector_default(Blank, 1))
    \/ \E n \in 0..MaxCap : \E g \in Garbage(n) :
          Constructed(vector_count(Blank, 1, n, g))
    \/ \E n \in 0..MaxCap : \E val \in Values : \E g \in Garbage(n) :
          Constructed(vector_fill(Blank, 1, n, val, g))
    \/ \E s \in Seqs(MaxCap) : \E g \in Garbage(Len(s)) :
          Constructed(vector_range(Blank, 1, s, g))

PushBack(K, c, val) ==
    Run(K, c, "push_back", grow_request(Cur, c),
        LAMBDA g : push_back(Cur, c, val, g))

\* Precondition: the container is not empty.
PopBack(K, c) ==
    /\ vec[c].size_ > 0
    /\ Run(K, c, "pop_back", 0, LAMBDA g : pop_back(Cur, c))

Resize(K, c, n) ==
    Run(K, c, "resize", resize_request(Cur, c, n),
        LAMBDA g : resize(Cur, c, n, g))

Reserve(K, c, n) ==
    Run(K, c, "reserve", reserve_request(Cur, c, n),
        LAMBDA g : reserve(Cur, c, n, g))

ShrinkToFit(K, c) ==
    Run(K, c, "shrink_to_fit", vec[c].size_,
        LAMBDA g : shrink_to_fit(Cur, c, g))

AssignRange(K, c, s) ==
    Run(K, c, "assign_range", assign_request(Cur, c, Len(s)),
        LAMBDA g : assign_range(Cur, c, s, g))

AssignFill(K, c, n, val) ==
    Run(K, c, "assign_fill", assign_request(Cur, c, n),
        LAMBDA g : assign_fill(Cur, c, n, val, g))

AssignOpIl(K, c, il) ==
    Run(K, c, "assign_op_il", copy_assign_request(Cur, c, Len(il)),
        LAMBDA g : assign_op_il(Cur, c, il, g))

\* Precondition: position is in [cbegin(), cbegin() + size()].
Insert(K, c, distance, val) ==
    /\ distance <= vec[c].size_
    /\ Run(K, c, "insert", grow_request(Cur, c),
           LAMBDA g : insert(Cur, c, distance, val, g))

InsertRange(K, c, distance, s) ==
    /\ distance <= vec[c].size_
    /\ Run(K, c, "insert_range", insert_request(Cur, c, Len(s)),
           LAMBDA g : insert_range(Cur, c, distance, s, g))

\* Precondition: position is in [cbegin(), cbegin() + size()).
Erase(K, c, distance) ==
    /\ distance < vec[c].size_
    /\ Run(K, c, "erase", 0, LAMBDA g : erase(Cur, c, distance))

\* Precondition: first <= last, both in [cbegin(), cbegin() + size()].
EraseRange(K, c, distance, distance_first_last) ==
    /\ distance <= distance_first_last
    /\ distance_first_last <= vec[c].size_
    /\ Run(K, c, "erase_range", 0,
           LAMBDA g : erase_range(Cur, c, distance, distance_first_last))

Clear(K, c) == Run(K, c, "clear", 0, LAMBDA g : clear(Cur, c))

Emplace(K, c, distance, val) ==
    /\ distance <= vec[c].size_
    /\ Run(K, c, "emplace", grow_request(Cur, c),
           LAMBDA g : emplace(Cur, c, distance, val, g))

EmplaceBack(K, c, val) ==
    Run(K, c, "emplace_back", grow_request(Cur, c),
        LAMBDA g : emplace_back(Cur, c, val, g))

\* Every member call on container c.  resize(n, val), assign(il) and
\* insert(position, count, val) are no steps: a program that calls one of
\* them does not compile, so no state is reached through them.
Member(K, c) ==
    \/ \E val \in Values : PushBack(K, c, val)
    \/ PopBack(K, c)
    \/ \E n \in 0..K : Resize(K, c, n)
    \/ \E n \in 0..K : Reserve(K, c, n)
    \/ ShrinkToFit(K, c)
    \/ \E s \in Seqs(K) : AssignRange(K, c, s)
    \/ \E n \in 0..K : \E val \in Values : AssignFill(K, c, n, val)
    \/ \E il \in Seqs(K) : AssignOpIl(K, c, il)
    \/ \E d \in 0..K : \E val \in Values : Insert(K, c, d, val)
    \/ \E d \in 0..K : \E s \in Seqs(K) : InsertRange(K, c, d, s)
    \/ \E d \in 0..K : Erase(K, c, d)
    \/ \E d \in 0..K : \E e \in 0..K : EraseRange(K, c, d, e)
    \/ Clear(K, c)
    \/ \E d \in 0..K : \E val \in Values : Emplace(K, c, d, val)
    \/ \E val \in Values : EmplaceBack(K, c, val)

Next == Member(MaxCap, 1)

Spec == Init /\ [][Next]_vars

\* ------------------------------------------------ SpecTwo: two containers
\* Containers come and go: a container that is not alive can be constructed
\* (empty, as a copy, by move), one that is alive can be assigned from the
\* other, swapped with it, changed by member calls and destroyed.
InitTwo ==
    /\ vec = vector_default(Blank, 1).vec
    /\ heap = EmptyHeap
    /\ ub = FALSE
    /\ last = "vector"
    /\ hist = << >>

\* A constructor call for container c, which is not alive.
Make(K, c, op, req, F(_)) ==
    /\ ~ub
    /\ ~vec[c].alive
    /\ FreeBufs(Cur) # {}
    /\ req <= K
    /\ \E g \in Garbage(req) :
          \E m \in {F(g)} : Bounded(K, m) /\ Commit(m, op, c)
    /\ UNCHANGED hist

DefaultCtor(K, c) == Make(K, c, "vector", 0, LAMBDA g : vector_default(Cur, c))

CopyCtor(K, c, x) ==
    /\ vec[x].alive
    /\ Make(K, c, "vector_copy", vec[x].capacity_,
            LAMBDA g : vector_copy(Cur, c, x, g))

MoveCtor(K, c, x) ==
    /\ vec[x].alive
    /\ Make(K, c, "vector_move", 0, LAMBDA g : vector_move(Cur, c, x))

Destructor(K, c) == Run(K, c, "destroy", 0, LAMBDA g : vector_destroy(Cur, c))

CopyAssign(K, c, x) ==
    /\ vec[x].alive
    /\ Run(K, c, "assign_op_copy", copy_assign_request(Cur, c, vec[x].size_),
           LAMBDA g : assign_op_copy(Cur, c, x, g))

MoveAssign(K, c, x) ==
    /\ vec[x].alive
    /\ Run(K, c, "assign_op_move", 0, LAMBDA g : assign_op_move(Cur, c, x))

Swap(K, c, x) ==
    /\ vec[x].alive
    /\ Run(K, c, "swap", 0, LAMBDA g : swap(Cur, c, x))

\* The member calls followed on each of the two containers.
MemberTwo(K, c) ==
    \/ \E val \in Values : PushBack(K, c, val)
    \/ PopBack(K, c)
    \/ \E d \in 0..K : \E val \in Values : Insert(K, c, d, val)
    \/ \E d \in 0..K : Erase(K, c, d)

NextTwo ==
    \E c \in Vecs :
        \/ MemberTwo(MaxCapTwo, c)
        \/ DefaultCtor(MaxCapTwo, c)
        \/ Destructor(MaxCapTwo, c)
        \/ \E x \in Vecs \ {c} :
              \/ CopyCtor(MaxCapTwo, c, x)
              \/ MoveCtor(MaxCapTwo, c, x)
              \/ CopyAssign(MaxCapTwo, c, x)
              \/ MoveAssign(MaxCapTwo, c, x)
              \/ Swap(MaxCapTwo, c, x)

SpecTwo == InitTwo /\ [][NextTwo]_vars

\* ----------------------------------------------------- SpecPush: push_back
\* One default-constructed container, push_back only; hist is the sequence
\* of the values pushed.
InitPush ==
    /\ vec = [c \in Vecs |-> IF c = 1 THEN [NoVector EXCEPT !.alive = TRUE]
                             ELSE NoVector]
    /\ heap = EmptyHeap
    /\ ub = FALSE
    /\ last = "vector"
    /\ hist = << >>

PushBackLogged(v) ==
    /\ CanRun(1)
    /\ Len(hist) < MaxPush
    /\ \E g \in Garbage(grow_request(Cur, 1)) :
          Commit(push_back(Cur, 1, v, g), "push_back", 1)
    /\ hist' = Append(hist, v)

NextPush == \E v \in Values : PushBackLogged(v)

SpecPush == InitPush /\ [][NextPush]_vars

\* --------------------------------- SpecThrow: construction may throw
\* One container of a value_type whose copy constructor may throw.  The
\* members that reallocate through increase_array are followed, each both
\* when it returns and when the migrate step throws at its element k.
Throws(K, c, op, req, k) ==
    /\ CanRun(c)
    /\ req <= K
    /\ k < migrate_distance(Cur, c, req)
    /\ \E g \in Garbage(req) :
          \E m \in {increase_array_throws(Cur, c, req, g, k)} :
              Bounded(K, m) /\ Commit(m, op, c)
    /\ UNCHANGED hist

ReserveThrows(K, c, n, k) ==
    /\ n > vec[c].capacity_
    /\ Throws(K, c, "reserve_throws", n, k)

ResizeThrows(K, c, n, k) ==
    /\ n > vec[c].size_
    /\ Throws(K, c, "resize_throws", resize_request(Cur, c, n), k)

ShrinkToFitThrows(K, c, k) ==
    Throws(K, c, "shrink_to_fit_throws", vec[c].size_, k)

PushBackThrows(K, c, k) ==
    /\ vec[c].array_end_ = vec[c].array_range_end_
    /\ Throws(K, c, "push_back_throws", grow_request(Cur, c), k)

InsertThrows(K, c, distance, k) ==
    /\ distance <= vec[c].size_
    /\ vec[c].array_end_ = vec[c].array_range_end_
    /\ Throws(K, c, "insert_throws", grow_request(Cur, c), k)

InitThrow ==
    \/ Constructed(vector_default(Blank, 1))
    \/ \E s \in Seqs(MaxCapThrow) : \E g \in Garbage(Len(s)) :
          Constructed(vector_range(Blank, 1, s, g))

NextThrow ==
    \/ \E val \in Values : PushBack(MaxCapThrow, 1, val)
    \/ \E n \in 0..MaxCapThrow : Resize(MaxCapThrow, 1, n)
    \/ \E n \in 0..MaxCapThrow : Reserve(MaxCapThrow, 1, n)
    \/ ShrinkToFit(MaxCapThrow, 1)
    \/ \E d \in 0..MaxCapThrow : \E val \in Values :
          Insert(MaxCapThrow, 1, d, val)
    \/ \E k \in 0..MaxCapThrow :
          \/ PushBackThrows(MaxCapThrow, 1, k)
          \/ \E n \in 0..MaxCapThrow : ResizeThrows(MaxCapThrow, 1, n, k)
          \/ \E n \in 0..MaxCapThrow : ReserveThrows(MaxCapThrow, 1, n, k)
          \/ ShrinkToFitThrows(MaxCapThrow, 1, k)
          \/ \E d \in 0..MaxCapThrow : InsertThrows(MaxCapThrow, 1, d, k)

SpecThrow == InitThrow /\ [][NextThrow]_vars

\* ================================================================ claims
\* The calls a property quantifies over are those the specification follows:
\* the request fits the bound and so does the container afterwards.
Live(c) == ~ub /\ vec[c].alive /\ FreeBufs(Cur) # {}
Fits(req, m) == req <= MaxCap /\ Bounded(MaxCap, m)

\* s without its element at index i (0-based)
Without(s, i) == SubSeq(s, 1, i) \o SubSeq(s, i + 2, Len(s))
\* s without its elements at indices [i, j)
WithoutRange(s, i, j) == SubSeq(s, 1, i) \o SubSeq(s, j + 1, Len(s))
\* s with v put before index i (0-based)
With(s, i, v) == SubSeq(s, 1, i) \o <<v>> \o SubSeq(s, i + 1, Len(s))

\* C1: after any sequence of public operations called within their
\* preconditions, size() <= capacity().
CE_C1 ==
    \A c \in Vecs :
        (~ub /\ vec[c].alive) => vec[c].size_ <= vec[c].capacity_

\* C2: starting from an empty container, after push_back of v0..v(k-1) the
\* size is k (one more per call) and container[i] = vi for every i < k.
Thm_C2 ==
    /\ ~ub
    /\ size(Cur, 1) = Len(hist)
    /\ \A i \in 1..Len(hist) : At(Cur, 1, i - 1) = hist[i]

Wit_C2 ==
    /\ last = "push_back"
    /\ Len(hist) = MaxPush
    /\ \E i, j \in 1..Len(hist) : hist[i] # hist[j]
    /\ size(Cur, 1) = MaxPush

\* C3: for a container holding s of size n and every i in 0..n,
\* insert(begin()+i, v) leaves s[0..i), v, s[i..n) and size n+1.
CE_C3 ==
    \A c \in Vecs : Live(c) =>
        \A i \in 0..size(Cur, c) : \A v \in Values :
            \A g \in Garbage(Min(grow_request(Cur, c), MaxCap)) :
                LET m == insert(Cur, c, i, v, g)
                IN Fits(grow_request(Cur, c), m) =>
                      /\ ~m.ub
                      /\ size(m, c) = size(Cur, c) + 1
                      /\ Elems(m, c) = With(Elems(Cur, c), i, v)

\* C4: in any reachable state holding s of size n, erase(begin()+i), i < n,
\* leaves s without element i and size n-1; erase(first, last) removes
\* exactly [first, last) and lowers the size by last-first.
CE_C4 ==
    \A c \in Vecs : Live(c) =>
        /\ \A i \in 0..(size(Cur, c) - 1) :
              LET m == erase(Cur, c, i)
              IN /\ ~m.ub
                 /\ size(m, c) = size(Cur, c) - 1
                 /\ Elems(m, c) = Without(Elems(Cur, c), i)
        /\ \A i \in 0..size(Cur, c) : \A j \in i..size(Cur, c) :
              LET m == erase_range(Cur, c, i, j)
              IN /\ ~m.ub
                 /\ size(m, c) = size(Cur, c) - (j - i)
                 /\ Elems(m, c) = WithoutRange(Elems(Cur, c), i, j)

\* C5: for every content, every position i in [0, size] and every value v,
\* insert(begin()+i, v) followed by erase(begin()+i) restores the original
\* element sequence and size.
CE_C5 ==
    \A c \in Vecs : Live(c) =>
        \A i \in 0..size(Cur, c) : \A v \in Values :
            \A g \in Garbage(Min(grow_request(Cur, c), MaxCap)) :
                LET m1 == insert(Cur, c, i, v, g)
                    m2 == erase(m1, c, i)
                IN Fits(grow_request(Cur, c), m1) =>
                      /\ ~m2.ub
                      /\ size(m2, c) = size(Cur, c)
                      /\ Elems(m2, c) = Elems(Cur, c)

\* C6: at(index) throws out_of_range for every index >= size() and returns
\* the element at that index, without error, for every index < size().
CE_C6 ==
    \A c \in Vecs : (~ub /\ vec[c].alive) =>
        \A n \in 0..(MaxCap + 1) :
            at_throws(Cur, c, n) <=> n >= size(Cur, c)

\* C7: in any reachable state reserve(n) leaves size() and every element
\* unchanged, gives capacity() >= n, and for n <= capacity() changes
\* neither the capacity nor data().
CE_C7 ==
    \A c \in Vecs : Live(c) =>
        \A n \in 0..MaxCap : \A g \in Garbage(reserve_request(Cur, c, n)) :
            LET m == reserve(Cur, c, n, g)
            IN /\ ~m.ub
               /\ size(m, c) = size(Cur, c)
               /\ Elems(m, c) = Elems(Cur, c)
               /\ capacity(m, c) >= n
               /\ n <= capacity(Cur, c) =>
                     /\ capacity(m, c) = capacity(Cur, c)
                     /\ data(m, c) = data(Cur, c)

\* C8: resize(n, v) on a container of size s < n gives size() = n, every
\* element at an index in [s, n) equal to v and every element at an index
\* in [0, s) unchanged.
CE_C8 ==
    \A c \in Vecs : Live(c) =>
        \A n \in (size(Cur, c) + 1)..MaxCap : \A v \in Values :
            \A g \in Garbage(Min(resize_request(Cur, c, n), MaxCap)) :
                LET m == resize_val(Cur, c, n, v, g)
                IN Fits(resize_request(Cur, c, n), m) =>
                      /\ ~m.ub
                      /\ size(m, c) = n
                      /\ \A i \in size(Cur, c)..(n - 1) : At(m, c, i) = v
                      /\ \A i \in 0..(size(Cur, c) - 1) :
                            At(m, c, i) = At(Cur, c, i)

\* After an assign of the sequence a: size() = Len(a), element i is a[i].
Assigned(m, c, a) == ~m.ub /\ size(m, c) = Len(a) /\ Elems(m, c) = a

\* C9: each form of assign (range, count + value, initializer list),
\* called in any reachable state with a sequence a of length m, whether or
\* not m exceeds the capacity, leaves size() = m and element i = a[i].
CE_C9 ==
    \A c \in Vecs : Live(c) =>
        \A a \in Seqs(MaxCap) :
            \A g \in Garbage(assign_request(Cur, c, Len(a))) :
                /\ Assigned(assign_range(Cur, c, a, g), c, a)
                /\ Assigned(assign_il(Cur, c, a, g), c, a)
                /\ (\A i \in 1..Len(a) : a[i] = a[1]) =>
                      Assigned(assign_fill(Cur, c, Len(a),
                                           IF a = << >> THEN 0 ELSE a[1], g),
                               c, a)

\* b after being moved into from a: a's size, capacity, buffer and
\* elements as they were in m0, and a empty in m.
Moved(m0, m, b, a) ==
    /\ ~m.ub
    /\ m.vec[b].alive
    /\ size(m, b) = size(m0, a)
    /\ capacity(m, b) = capacity(m0, a)
    /\ data(m, b) = data(m0, a)
    /\ Elems(m, b) = Elems(m0, a)
    /\ size(m, a) = 0
    /\ capacity(m, a) = 0
    /\ data(m, a) = nullptr

\* C10: after move-constructing or move-assigning b from a distinct a, b
\* holds a's original size, capacity and elements and a is empty: size 0,
\* capacity 0, buffer null.
Thm_C10 ==
    \A b \in Vecs : \A a \in Vecs \ {b} :
        (~ub /\ vec[a].alive) =>
            IF vec[b].alive
            THEN Moved(Cur, assign_op_move(Cur, b, a), b, a)
            ELSE Moved(Cur, vector_move(Cur, b, a), b, a)

Wit_C10 ==
    /\ ~ub
    /\ last \in {"vector_move", "assign_op_move"}
    /\ \E b \in Vecs : \E a \in Vecs \ {b} :
          /\ vec[b].alive /\ vec[a].alive
          /\ size(Cur, b) = MaxCapTwo
          /\ At(Cur, b, 0) # At(Cur, b, 1)
          /\ size(Cur, a) = 0 /\ capacity(Cur, a) = 0
          /\ data(Cur, a) = nullptr

\* The container c and the heap of m are those of the current state.
Untouched(m, c) == ~m.ub /\ m.vec[c] = vec[c] /\ m.heap = heap

\* C11: when the allocator fails during a mutating operation (push_back,
\* emplace_back, insert, emplace, resize, reserve, shrink_to_fit, assign,
\* copy assignment, initializer-list assignment) the error reaches the caller
\* with size, capacity, buffer and element values as before the call.
CE_C11 ==
    \A c \in Vecs : (~ub /\ vec[c].alive) =>
        /\ Untouched(increase_array_bad_alloc(Cur, c), c)
        /\ \A n \in 0..MaxCap :
              /\ assign_request(Cur, c, n) > 0 =>
                    Untouched(assign_bad_alloc(Cur, c, n), c)
              /\ copy_assign_request(Cur, c, n) > 0 =>
                    Untouched(assign_op_bad_alloc(Cur, c, n), c)

\* Slot i of the buffer of container c holds a constructed element.
SlotLive(m, c, i) ==
    LET p == PtrAdd(m.vec[c].array_, i)
    IN InBounds(m, p) /\ m.heap[p[1]].live[p[2] + 1]

\* C12: in every state reachable by public operations called within their
\* preconditions every slot in [0, size) holds a constructed element and
\* every slot in [size, capacity) is raw.
CE_C12 ==
    \A c \in Vecs : (~ub /\ vec[c].alive) =>
        /\ \A i \in 0..(size(Cur, c) - 1) : SlotLive(Cur, c, i)
        /\ \A i \in size(Cur, c)..(capacity(Cur, c) - 1) :
              ~SlotLive(Cur, c, i)

\* C13: in every reachable state the buffer handle is null if and only if
\* capacity() = 0 (after construction with count 0 or from an empty range,
\* after shrink_to_fit on an empty container, after being moved from).
CE_C13 ==
    \A c \in Vecs : (~ub /\ vec[c].alive) =>
        (data(Cur, c) = nullptr <=> capacity(Cur, c) = 0)

\* C14: after every public operation the three derived positions agree with
\* the primary state: start = buffer, end-of-live = buffer + size and
\* end-of-capacity = buffer + capacity, so end() - begin() = size().
CE_C14 ==
    \A c \in Vecs : (~ub /\ vec[c].alive) =>
        /\ vec[c].array_start_ = vec[c].array_
        /\ vec[c].array_end_ = PtrAdd(vec[c].array_, vec[c].size_)
        /\ vec[c].array_range_end_ = PtrAdd(vec[c].array_, vec[c].capacity_)
        /\ PtrDiff(end(Cur, c), begin(Cur, c)) = size(Cur, c)

\* C15: in any reachable state of size s (after resize, insert or erase as
\* well as after push_back calls) push_back(v) gives size s+1, the element
\* at index s equal to v and the elements at [0, s) unchanged.
CE_C15 ==
    \A c \in Vecs : Live(c) =>
        \A v \in Values :
            \A g \in Garbage(Min(grow_request(Cur, c), MaxCap)) :
                LET m == push_back(Cur, c, v, g)
                IN Fits(grow_request(Cur, c), m) =>
                      /\ ~m.ub
                      /\ size(m, c) = size(Cur, c) + 1
                      /\ At(m, c, size(Cur, c)) = v
                      /\ \A i \in 0..(size(Cur, c) - 1) :
                            At(m, c, i) = At(Cur, c, i)

\* C16: on a non-empty container back() refers to the last live element,
\* the one at index size()-1, and front() to the element at index 0.
CE_C16 ==
    \A c \in Vecs : (~ub /\ vec[c].alive /\ size(Cur, c) > 0) =>
        /\ front(Cur, c) = data(Cur, c)
        /\ back(Cur, c) = PtrAdd(data(Cur, c), size(Cur, c) - 1)

\* C17: on a non-empty container of size s pop_back() destroys exactly the
\* element at index s-1 and no other slot, and leaves size() = s-1 with the
\* elements at [0, s-1) and the capacity unchanged.
CE_C17 ==
    \A c \in Vecs : (~ub /\ vec[c].alive /\ size(Cur, c) > 0) =>
        LET m == pop_back(Cur, c)
        IN /\ ~m.ub
           /\ size(m, c) = size(Cur, c) - 1
           /\ capacity(m, c) = capacity(Cur, c)
           /\ \A i \in 0..(size(Cur, c) - 2) : At(m, c, i) = At(Cur, c, i)
           /\ \A i \in 0..MaxCap :
                 SlotLive(m, c, i) <=>
                     (SlotLive(Cur, c, i) /\ i # size(Cur, c) - 1)

\* C18: copy-constructing b from a, a in any reachable state, gives
\* b.size() = a.size() and b[i] = a[i] for every i < size, b owning a buffer
\* distinct from a's, so that a change of b leaves a's size and elements
\* unchanged.
CE_C18 ==
    \A b \in Vecs : \A a \in Vecs \ {b} :
        (Live(a) /\ ~vec[b].alive) =>
            \A g \in Garbage(capacity(Cur, a)) :
                LET m == vector_copy(Cur, b, a, g)
                    m1 == clear(m, b)
                IN /\ ~m.ub
                   /\ size(m, b) = size(Cur, a)
                   /\ Elems(m, b) = Elems(Cur, a)
                   /\ data(m, b)[1] # data(m, a)[1]
                   /\ size(m1, a) = size(Cur, a)
                   /\ Elems(m1, a) = Elems(Cur, a)

Holds(m, c, m0, x) ==
    /\ data(m, c) = data(m0, x)
    /\ size(m, c) = size(m0, x)
    /\ capacity(m, c) = capacity(m0, x)
    /\ Elems(m, c) = Elems(m0, x)

\* C20: after a.swap(b) a holds b's prior buffer, size, capacity and element
\* sequence and b holds a's; no element is constructed, copied or destroyed
\* (the heap is untouched); swapping twice restores both containers.
Thm_C20 ==
    \A a \in Vecs : \A b \in Vecs \ {a} :
        (~ub /\ vec[a].alive /\ vec[b].alive) =>
            LET m1 == swap(Cur, a, b)
                m2 == swap(m1, a, b)
            IN /\ ~m1.ub /\ ~m2.ub
               /\ Holds(m1, a, Cur, b) /\ Holds(m1, b, Cur, a)
               /\ m1.heap = heap
               /\ Holds(m2, a, Cur, a) /\ Holds(m2, b, Cur, b)
               /\ m2.heap = heap

Wit_C20 ==
    /\ ~ub
    /\ last = "swap"
    /\ vec[1].alive /\ vec[2].alive
    /\ size(Cur, 1) = MaxCapTwo
    /\ At(Cur, 1, 0) # At(Cur, 1, 1)
    /\ size(Cur, 2) = 1
    /\ data(Cur, 2) # nullptr

\* C21: in any reachable state shrink_to_fit() gives capacity() = size(),
\* with size() and every element at an index in [0, size) unchanged.
CE_C21 ==
    \A c \in Vecs : Live(c) =>
        \A g \in Garbage(Min(size(Cur, c), MaxCap)) :
            LET m == shrink_to_fit(Cur, c, g)
            IN Fits(size(Cur, c), m) =>
                  /\ ~m.ub
                  /\ capacity(m, c) = size(m, c)
                  /\ size(m, c) = size(Cur, c)
                  /\ Elems(m, c) = Elems(Cur, c)

\* The slot counts reserve, resize, shrink_to_fit, push_back and insert pass
\* to increase_array in the current state.
ReallocRequests(c) ==
    {reserve_request(Cur, c, n) : n \in 0..MaxCapThrow}
        \cup {resize_request(Cur, c, n) : n \in 0..MaxCapThrow}
        \cup {size(Cur, c), grow_request(Cur, c)}

\* C22: when constructing an element throws partway through the migrate step
\* of a reallocation (reserve, resize, shrink_to_fit, push_back, insert) the
\* container is in the pre-image: old buffer, size, capacity, derived
\* positions and elements intact; it never points at the partially
\* constructed buffer.
Thm_C22 ==
    \A c \in Vecs : Live(c) =>
        \A req \in ReallocRequests(c) \cap 0..MaxCapThrow :
            \A k \in 0..(migrate_distance(Cur, c, req) - 1) :
                \A g \in Garbage(req) :
                    LET m == increase_array_throws(Cur, c, req, g, k)
                    IN /\ m.vec[c] = vec[c]
                       /\ data(m, c)[1] # NextBuf(Cur)
                       /\ data(Cur, c)[1] \in Bufs =>
                             m.heap[data(Cur, c)[1]] = heap[data(Cur, c)[1]]
                       /\ Elems(m, c) = Elems(Cur, c)

Wit_C22 ==
    /\ ~ub
    /\ last = "shrink_to_fit_throws"
    /\ size(Cur, 1) = 2
    /\ SlotLive(Cur, 1, 0) /\ SlotLive(Cur, 1, 1)
    /\ \E b \in Bufs \ {data(Cur, 1)[1]} :
          /\ heap[b].used
          /\ heap[b].cap = MaxCapThrow
          /\ heap[b].live = <<TRUE, FALSE>>

\* C23: emplace(position, v) and insert(position, v), applied to the same
\* reachable state with the same position, leave the container in the same
\* state (size, capacity, element sequence and derived end position);
\* likewise emplace_back(v) and push_back(v).
CE_C23 ==
    \A c \in Vecs : Live(c) =>
        \A v \in Values :
            \A g \in Garbage(Min(grow_request(Cur, c), MaxCap)) :
                /\ \A i \in 0..size(Cur, c) :
                      LET m1 == emplace(Cur, c, i, v, g)
                          m2 == insert(Cur, c, i, v, g)
                      IN Fits(grow_request(Cur, c), m1) =>
                            /\ m1.ub = m2.ub
                            /\ m1.vec[c] = m2.vec[c]
                            /\ Elems(m1, c) = Elems(m2, c)
                /\ LET m1 == emplace_back(Cur, c, v, g)
                       m2 == push_back(Cur, c, v, g)
                   IN Fits(grow_request(Cur, c), m1) => m1 = m2

\* No slot at an index >= n of the buffer of c holds a constructed element.
RawFrom(m, c, n) == \A i \in n..MaxCap : ~SlotLive(m, c, i)

\* C24: when assign (any form) or copy / initializer-list assignment is
\* called with a new size that fits the capacity, every previously live
\* element is destroyed before a new element is constructed in its slot: no
\* live element is overwritten and none is left live beyond the new size.
CE_C24 ==
    \A c \in Vecs : (~ub /\ vec[c].alive) =>
        \A a \in Seqs(MaxCap) :
            Len(a) <= capacity(Cur, c) =>
                /\ \A i \in 0..(Len(a) - 1) :
                      /\ ~SlotLive(assign_prepare(Cur, c, Len(a)), c, i)
                      /\ ~SlotLive(assign_op_prepare(Cur, c, Len(a)), c, i)
                /\ RawFrom(assign_range(Cur, c, a, << >>), c, Len(a))
                /\ RawFrom(assign_fill(Cur, c, Len(a), 0, << >>), c, Len(a))
                /\ RawFrom(assign_op_il(Cur, c, a, << >>), c, Len(a))

\* C25: no public operation called within its preconditions constructs,
\* destroys or copies from a slot at an index >= the capacity of the buffer
\* it addresses, or a slot of a released buffer: no step taken so far has
\* done so (ub), and the slot pop_back() destroys on a non-empty container
\* lies inside the buffer.
CE_C25 ==
    /\ ~ub
    /\ \A c \in Vecs : (vec[c].alive /\ size(Cur, c) > 0) =>
          InBounds(Cur, pop_back_slot(Cur, c))

\* The live containers whose buffer is b.
Owners(b) == {c \in Vecs : vec[c].alive /\ data(Cur, c) = <<b, 0>>}

\* C26: over any sequence of operations on several containers in which no
\* allocation or construction fails, every buffer obtained from the
\* allocator is deallocated exactly once, with the slot count it was
\* allocated with, and never while a container still owns it: every
\* allocated buffer has exactly one owner, whose capacity_ is its slot count;
\* a container holds null or an allocated buffer; the deallocate call a
\* member makes with its (array_, capacity_) is a valid one; and once all
\* containers are destroyed no buffer is left allocated.
Thm_C26 ==
    ~ub =>
        /\ \A b \in Bufs : heap[b].used =>
              /\ Cardinality(Owners(b)) = 1
              /\ \A c \in Owners(b) : capacity(Cur, c) = heap[b].cap
        /\ \A c \in Vecs : vec[c].alive =>
              /\ data(Cur, c) = nullptr \/
                    (data(Cur, c)[1] \in Bufs /\ heap[data(Cur, c)[1]].used)
              /\ ~Deallocate(Cur, data(Cur, c), capacity(Cur, c)).ub
        /\ (\A c \in Vecs : ~vec[c].alive) => heap = EmptyHeap

Wit_C26 ==
    /\ ~ub
    /\ last = "destroy"
    /\ \A c \in Vecs : ~vec[c].alive
    /\ heap = EmptyHeap

====
